---- MODULE Spec2Model ----
(***************************************************************************)
(* The debris-track pipeline (src/debris-track.py, the strict variant, and *)
(* src/debris-track-2.py, the tolerant variant): login, candidate listing, *)
(* the per-object fetch loop with its rate counter, the derivation of the  *)
(* orbital parameters and the writing of the report rows.                  *)
(*                                                                         *)
(* Numbers are fixed point, because TLC's integers are 32 bits wide:       *)
(*   mean motion    in 1/10 rev/day          (155 is 15.5 rev/day)         *)
(*   eccentricity   in 1/10000               (3 is 0.0003)                 *)
(*   lengths        in metres, i.e. 1/1000 km (the sheet's unit is km)     *)
(*   period         in seconds, velocity in the unit the code computes,    *)
(*                  sqrt(GM / smak) with GM in m^3/s^2 and smak in m       *)
(***************************************************************************)
EXTENDS Integers, Sequences, FiniteSets, TLC

\* ------------------------------------------------------------------ bounds
\* Longest candidate list the service returns: two full rate cycles and one more.
MaxIds == 37
\* Longest candidate list in ascending order, object 1 first: one full rate
\* cycle and one more.
MaxAsc == 19
\* Most element records the service returns for one identifier.
MaxRecs == 2
\* Last position at which a listing holds an entry without NORAD_CAT_ID.
MaxGap == 2

\* --------------------------------------------------------------- constants
\* The rate threshold of `if maxs > 18`.
K == 18
\* First data row: wsline = 3.
FirstRow == 3
\* GM = 398600441800000.0 m^3/s^2, held in units of 10^6 m^3/s^2.
GM == 398600442
\* GM13 = GM ** (1.0/3.0) = 73594.596, rounded.
GM13 == 73595
\* MRAD = 6378.137 km, in metres.
MRAD == 6378137
\* PI = 3.14159265358979; two PI in units of 1/10000.
PI2 == 62832
\* TPI86 = 2.0 * PI / 86400.0 = 7.2722e-05, in units of 10^-9.
TPI86 == 72722

Variants == {"strict", "tolerant"}

\* ------------------------------------------------------------- arithmetic
\* floor(a * b / c) for a, b >= 0 and c > 0 without leaving the integer range.
MulDiv(a, b, c) == (a \div c) * b + ((a % c) * b) \div c

RECURSIVE Bisect2(_, _, _)
Bisect2(lo, hi, n) ==
    IF hi - lo <= 1 THEN lo
    ELSE LET mid == (lo + hi) \div 2
         IN  IF mid * mid <= n THEN Bisect2(mid, hi, n) ELSE Bisect2(lo, mid, n)

\* x ** 0.5 on non-negative integers, rounded down.
ISqrt(n) == Bisect2(0, 46341, n)

RECURSIVE Bisect3(_, _, _)
Bisect3(lo, hi, n) ==
    IF hi - lo <= 1 THEN lo
    ELSE LET mid == (lo + hi) \div 2
         IN  IF mid * mid * mid <= n THEN Bisect3(mid, hi, n) ELSE Bisect3(lo, mid, n)

\* x ** (1.0/3.0) on non-negative integers, rounded down.
ICbrt(n) == Bisect3(0, 1291, n)

\* ------------------------------------------------------------------ values
\* A JSON field of an element record: present or not, a number or a text.
NumField(n) == [p |-> TRUE, v |-> n, s |-> ""]
StrField(x) == [p |-> TRUE, v |-> 0, s |-> x]
Absent == [p |-> FALSE, v |-> 0, s |-> ""]

\* A float, int or str handed to worksheet.write, or a complex number (what a
\* fractional power of a negative float is).
Num(n) == [k |-> "num", v |-> n, s |-> ""]
Str(x) == [k |-> "str", v |-> 0, s |-> x]
Complex == [k |-> "complex", v |-> 0, s |-> ""]

\* The exception that ends a run: its class, what its message names (the
\* remote call and the identifier, 0 for none) and, as a record of the run,
\* the statement that raised it.
NoError == [kind |-> "", call |-> "", ident |-> 0, at |-> ""]
Exc(kind, at) == [kind |-> kind, call |-> "", ident |-> 0, at |-> at]

\* e['KEY'] in both variants: a missing key raises.
LookupStrict(variant, e, key, default) ==
    IF e[key].p THEN [err |-> "", val |-> e[key]]
    ELSE [err |-> "KeyError", val |-> Absent]

\* e['KEY'] of the strict variant, e.get('KEY', default) of the tolerant one:
\* the value read and the exception raised ("" for none).
Lookup(variant, e, key, default) ==
    IF e[key].p THEN [err |-> "", val |-> e[key]]
    ELSE IF variant = "strict" THEN [err |-> "KeyError", val |-> Absent]
    ELSE [err |-> "", val |-> default]

\* ------------------------------------------------------------- derivation
\* sma = GM13 / ((TPI86 * mmoti) ** (2.0 / 3.0)) / 1000.0, and `if mmoti else 0`
\* in the tolerant variant. TPI86 * mmoti is taken in units of 10^-7, its
\* square in 10^-15, the cube root of that in 10^-5. "zerodiv" is the
\* ZeroDivisionError of dividing by 0.0 ** (2.0 / 3.0).
\* The derivation without the `if mmoti else 0` guard.
SmaUnguarded(variant, mmoti) ==
    IF mmoti = 0 THEN [k |-> "zerodiv", v |-> 0, s |-> ""]
    ELSE IF mmoti < 0 THEN Complex
    ELSE LET x == (TPI86 * mmoti) \div 1000
         IN  Num(MulDiv(GM13, 100000, ICbrt(x * x * 10)))

Sma(variant, mmoti) ==
    IF mmoti = 0
    THEN IF variant = "tolerant" THEN Num(0) ELSE [k |-> "zerodiv", v |-> 0, s |-> ""]
    ELSE IF mmoti < 0 THEN Complex
    ELSE LET x == (TPI86 * mmoti) \div 1000
         IN  Num(MulDiv(GM13, 100000, ICbrt(x * x * 10)))

\* The apogee taken with the sign of the perigee.
ApoAsPer(sma, ecc) ==
    IF sma.k = "num" THEN Num(MulDiv(sma.v, 10000 - ecc, 10000) - MRAD) ELSE sma

\* apo = sma * (1.0 + ecc) - MRAD
Apo(sma, ecc) ==
    IF sma.k = "num" THEN Num(MulDiv(sma.v, 10000 + ecc, 10000) - MRAD) ELSE sma

\* per = sma * (1.0 - ecc) - MRAD
Per(sma, ecc) ==
    IF sma.k = "num" THEN Num(MulDiv(sma.v, 10000 - ecc, 10000) - MRAD) ELSE sma

\* (apo + per)/2.0
Avg(apo, per) ==
    IF apo.k = "num" /\ per.k = "num" THEN Num((apo.v + per.v) \div 2) ELSE apo

\* orbV = (GM / smak) ** 0.5, and `if sma else 0` in the tolerant variant;
\* smak = sma * 1000.0 is sma in metres.
OrbV(variant, sma) ==
    IF sma.k # "num" THEN sma
    ELSE IF sma.v = 0
    THEN IF variant = "tolerant" THEN Num(0) ELSE [k |-> "zerodiv", v |-> 0, s |-> ""]
    ELSE Num(ISqrt((GM \div (sma.v \div 1000)) * 1000))

\* The period with PI in place of 2.0 * PI.
OrbTHalf(variant, sma) ==
    IF sma.k # "num" THEN sma
    ELSE IF sma.v = 0 THEN Num(0)
    ELSE Num(MulDiv(sma.v, PI2 \div 2, OrbV(variant, sma).v) \div 10000)

\* orbT = 2.0 * PI * ((smak ** 3.0) / GM) ** 0.5, and `if sma else 0` in the
\* tolerant variant. smak ** 3 is outside the integer range, so the root is
\* taken as smak / (GM / smak) ** 0.5, which is the same number.
OrbT(variant, sma) ==
    IF sma.k # "num" THEN sma
    ELSE IF sma.v = 0 THEN Num(0)
    ELSE Num(MulDiv(sma.v, PI2, OrbV(variant, sma).v) \div 10000)

\* ------------------------------------------------------------ one record
\* The statements of the record loop body in source order, each with the
\* exception it raises ("" for none), whether it is a worksheet.write, and the
\* cell it writes. cw is what the sheet library does with a complex number:
\* "raise" (a TypeError out of worksheet.write) or "store".
ReadStep(l) == [err |-> l.err, w |-> FALSE, cell |-> Num(0)]
WriteNum(l) == [err |-> l.err, w |-> TRUE, cell |-> Num(l.val.v)]
WriteStr(l) == [err |-> l.err, w |-> TRUE, cell |-> Str(l.val.s)]
WriteVal(c, cw) ==
    [err |-> IF c.k = "complex" /\ cw = "raise" THEN "TypeError" ELSE "",
     w |-> TRUE, cell |-> c]
Compute(c) ==
    [err |-> IF c.k = "zerodiv" THEN "ZeroDivisionError" ELSE "",
     w |-> FALSE, cell |-> Num(0)]

RowSteps(variant, e, cw) ==
    LET name  == Lookup(variant, e, "OBJECT_NAME", StrField("UNKNOWN"))
        epoch == Lookup(variant, e, "EPOCH", StrField("UNKNOWN"))
        mmoti == Lookup(variant, e, "MEAN_MOTION", NumField(0))
        ecc   == Lookup(variant, e, "ECCENTRICITY", NumField(0))
        id    == Lookup(variant, e, "NORAD_CAT_ID", NumField(0))
        rev   == Lookup(variant, e, "REV_AT_EPOCH", NumField(0))
        inc   == Lookup(variant, e, "INCLINATION", NumField(0))
        raan  == Lookup(variant, e, "RA_OF_ASC_NODE", NumField(0))
        argp  == Lookup(variant, e, "ARG_OF_PERICENTER", NumField(0))
        ma    == Lookup(variant, e, "MEAN_ANOMALY", NumField(0))
        sma   == Sma(variant, mmoti.val.v)
        apo   == Apo(sma, ecc.val.v)
        per   == Per(sma, ecc.val.v)
        orbT  == OrbT(variant, sma)
        orbV  == OrbV(variant, sma)
    IN  << ReadStep(name), ReadStep(epoch), ReadStep(mmoti), ReadStep(ecc),
           WriteNum(id), WriteStr(name), WriteStr(epoch), WriteNum(rev),
           WriteNum(inc), WriteNum(ecc), WriteNum(mmoti),
           Compute(sma), Compute(orbV),
           WriteVal(apo, cw), WriteVal(per, cw), WriteVal(Avg(apo, per), cw),
           WriteNum(raan), WriteNum(argp), WriteNum(ma),
           WriteVal(sma, cw), WriteVal(orbT, cw), WriteVal(orbV, cw) >>

\* The first statement that raises, Len + 1 when none does.
FirstFail(steps) ==
    IF \E i \in 1..Len(steps) : steps[i].err # ""
    THEN CHOOSE i \in 1..Len(steps) :
            steps[i].err # "" /\ \A j \in 1..(i - 1) : steps[j].err = ""
    ELSE Len(steps) + 1

\* The cells written to sheet row wsline before the first exception, in column
\* order (the writes are in column order in the source).
CellsWritten(steps) ==
    LET done == SubSeq(steps, 1, FirstFail(steps) - 1)
        ws   == SelectSeq(done, LAMBDA st : st.w)
    IN  [i \in 1..Len(ws) |-> ws[i].cell]

NumCols == 16

\* ------------------------------------------------------------ the service
\* HTTP status codes the service answers with.
Statuses == {200, 500}
\* A response body: JSON of the expected shape, or text json.loads rejects.
Bodies == {"json", "garbage"}

\* An entry of the candidate listing, with or without its NORAD_CAT_ID.
Entry(id) == [has |-> TRUE, id |-> id]
NoIdEntry == [has |-> FALSE, id |-> 0]

InsertAt(seq, pos, x) ==
    SubSeq(seq, 1, pos - 1) \o <<x>> \o SubSeq(seq, pos, Len(seq))

\* A candidate listing: the identifiers 1..n in ascending or in descending
\* order, and at most one entry without identifier, at gap. Object 1, the one
\* whose records vary, is fetched first of an ascending list and last of a
\* descending one.
Listing(n, order, gap) ==
    LET ids == [i \in 1..n |-> Entry(IF order = "asc" THEN i ELSE n + 1 - i)]
    IN  IF gap = 0 \/ gap > n + 1 THEN ids ELSE InsertAt(ids, gap, NoIdEntry)

\* The listings the service may answer with: complete ones of up to MaxIds
\* (descending) and MaxAsc (ascending) identifiers, and short ones with an
\* entry without identifier at each position up to MaxGap.
Listings ==
    { Listing(n, "desc", 0) : n \in 0..MaxIds }
        \cup { Listing(n, "asc", 0) : n \in 0..MaxAsc }
        \cup { Listing(n, order, gap) :
                    n \in 0..(MaxGap + 1), order \in {"asc", "desc"}, gap \in 1..MaxGap }

\* An element record of object id; the fields the derivation does not read
\* are fixed.
ElementRecord(id, c) ==
    [NORAD_CAT_ID |-> NumField(id), OBJECT_NAME |-> c.name, EPOCH |-> StrField("2024-01-01"),
     REV_AT_EPOCH |-> NumField(100), INCLINATION |-> NumField(516),
     ECCENTRICITY |-> c.ecc, MEAN_MOTION |-> c.mm,
     RA_OF_ASC_NODE |-> NumField(10), ARG_OF_PERICENTER |-> NumField(20),
     MEAN_ANOMALY |-> NumField(30)]

\* Well-formed element sets: the 15.5 rev/day low orbit, a circular orbit at
\* 1 rev/day, an eccentric orbit at 2 rev/day.
Ordinary == [name |-> StrField("DEB"), mm |-> NumField(155), ecc |-> NumField(3)]
Circular == [name |-> StrField("DEB"), mm |-> NumField(10), ecc |-> NumField(0)]
Eccentric == [name |-> StrField("DEB"), mm |-> NumField(20), ecc |-> NumField(5000)]

CaseOf(s) == IF s % 3 = 0 THEN Eccentric ELSE IF s % 3 = 1 THEN Ordinary ELSE Circular

\* The element sets object 1 may have: well-formed, mean motion 0, the name
\* and MEAN_MOTION missing, a negative mean motion.
RecordCases ==
    { Ordinary,
      [name |-> StrField("DEB"), mm |-> NumField(0), ecc |-> NumField(9999)],
      [name |-> Absent, mm |-> Absent, ecc |-> NumField(0)],
      [name |-> StrField("DEB"), mm |-> NumField(-10), ecc |-> NumField(3)] }

SeqsUpTo(S, n) == UNION { [1..m -> S] : m \in 0..n }

\* What the service holds for object s: anything for object 1 (zero to MaxRecs
\* records of any case), one well-formed record for every other object.
ServiceRecords(s) ==
    IF s = 1
    THEN SeqsUpTo({ ElementRecord(s, c) : c \in RecordCases }, MaxRecs)
    ELSE { << ElementRecord(s, CaseOf(s)) >> }

\* ------------------------------------------------------------------- state
VARIABLES
    variant,      \* which of the two source files runs
    pc,           \* the statement the run is at
    session,      \* Unauthenticated, Authenticated, Closed
    workbook,     \* open, closed
    debrisIds,    \* the candidate identifiers
    idx,          \* position of s in debrisIds
    retData,      \* the records of the last fetch
    rix,          \* position of e in retData
    maxs,         \* the rate counter
    wsline,       \* the next sheet row
    sheet,        \* the data rows of the sheet, each the cells written to it
    err,          \* the exception that ended the run
    reqCycle,     \* history: requests since the start or the last pause
    fetchCycle,   \* history: per-object fetches since the start or the last pause
    nFetch,       \* history: per-object fetches issued
    nPause,       \* history: pauses taken
    pauseAtFetch, \* history: pauses taken before the last per-object fetch
    getIn,        \* history: the session states GETs were issued in
    listed,       \* history: the candidate listing as the service returned it
    served,       \* history: per fetch, the identifier, the number of records
                  \* returned and the number of complete rows at that time
    emitted,      \* history: per complete row, <<position of s, position of e>>
    rowOf         \* history: per row of sheet, the value of wsline it was written at

vars == << variant, pc, session, workbook, debrisIds, idx, retData, rix, maxs,
           wsline, sheet, err, reqCycle, fetchCycle, nFetch, nPause,
           pauseAtFetch, getIn, listed, served, emitted, rowOf >>

prog == << debrisIds, idx, retData, rix, maxs, wsline, sheet >>
hist == << reqCycle, fetchCycle, nFetch, nPause, pauseAtFetch, getIn, listed, served,
          emitted, rowOf >>

Init ==
    /\ variant \in Variants
    /\ pc = "login"
    /\ session = "Unauthenticated"
    /\ workbook = "open"
    /\ debrisIds = << >>
    /\ idx = 0
    /\ retData = << >>
    /\ rix = 0
    /\ maxs = 0
    /\ wsline = FirstRow
    /\ sheet = << >>
    /\ err = NoError
    /\ reqCycle = 0
    /\ fetchCycle = 0
    /\ nFetch = 0
    /\ nPause = 0
    /\ pauseAtFetch = 0
    /\ getIn = {}
    /\ listed = << >>
    /\ served = << >>
    /\ emitted = << >>
    /\ rowOf = << >>

\* raise MyError(resp, message): __init__(self, args) takes one argument, so
\* a call with any other count raises a TypeError in place of the MyError, and
\* the message (the remote call, the identifier) is lost with it.
MyErrorNew(nargs, call, ident, at) ==
    IF nargs = 1
    THEN [kind |-> "MyError", call |-> call, ident |-> ident, at |-> at]
    ELSE [kind |-> "TypeError", call |-> "", ident |-> 0, at |-> at]

\* An exception ending the run with the session left as it is, as without the
\* with block.
RaiseNoClose(e) ==
    /\ err' = e
    /\ pc' = "aborted"
    /\ UNCHANGED << session, workbook >>

\* An exception leaves the `with requests.Session()` block, whose exit closes
\* the session; nothing after the block runs.
Raise(e) ==
    /\ err' = e
    /\ session' = "Closed"
    /\ pc' = "aborted"
    /\ UNCHANGED workbook

\* ----------------------------------------------------------------- actions
\* The service logs the session in when it answers the login POST with 200.
Answered(s, status) == IF status = 200 THEN "Authenticated" ELSE s

\* The login answer left unchecked.
LoginUnchecked(status) == FALSE

\* if resp.status_code != 200, after the login POST.
LoginRejected(status) == status # 200

\* resp = session.post(uriBase + requestLogin, data = siteCred) and its check.
Login ==
    /\ pc = "login"
    /\ reqCycle' = reqCycle + 1
    /\ \E status \in Statuses :
          IF LoginRejected(status)
          THEN Raise(MyErrorNew(2, "POST fail on login", 0, "login"))
          ELSE /\ session' = Answered(session, status)
               /\ pc' = "list"
               /\ UNCHANGED << workbook, err >>
    /\ UNCHANGED << variant, prog, fetchCycle, nFetch, nPause, pauseAtFetch,
                    getIn, listed, served, emitted, rowOf >>

\* Every entry kept, an entry without identifier as identifier 0.
IdsOfUnfiltered(listing) == [i \in 1..Len(listing) |-> listing[i].id]

\* debrisIds of the strict variant: e['NORAD_CAT_ID'] of every entry.
\* debrisIds of the tolerant variant: the entries that have one.
IdsOf(listing) ==
    LET kept == SelectSeq(listing, LAMBDA e : e.has)
    IN  [i \in 1..Len(kept) |-> kept[i].id]

\* The candidate listing GET, its check, json.loads and debrisIds; maxs = 1.
ListDebris ==
    /\ pc = "list"
    /\ reqCycle' = reqCycle + 1
    /\ getIn' = getIn \cup {session}
    /\ \E status \in Statuses, body \in Bodies, listing \in Listings :
          IF status # 200
          THEN /\ Raise(MyErrorNew(2, "GET fail when requesting debris data", 0, "list"))
               /\ UNCHANGED << debrisIds, idx, maxs, listed >>
          ELSE IF body # "json"
          THEN /\ Raise(Exc("JSONDecodeError", "list body"))
               /\ UNCHANGED << debrisIds, idx, maxs, listed >>
          ELSE IF variant = "strict" /\ \E i \in 1..Len(listing) : ~listing[i].has
          THEN /\ Raise(Exc("KeyError", "list entry"))
               /\ listed' = listing
               /\ UNCHANGED << debrisIds, idx, maxs >>
          ELSE /\ debrisIds' = IdsOf(listing)
               /\ listed' = listing
               /\ idx' = 1
               /\ maxs' = 1
               /\ pc' = "fetch"
               /\ UNCHANGED << session, workbook, err >>
    /\ UNCHANGED << variant, retData, rix, wsline, sheet, fetchCycle, nFetch,
                    nPause, pauseAtFetch, served, emitted, rowOf >>

\* The loop staying on the identifier it has just fetched.
SameCandidate(i) == i

\* for s in debrisIds: the pass after the i-th is the (i + 1)-th.
NextCandidate(i) == i + 1

\* The identifiers taken from the end of the list.
CandidateReversed(ids, i) == ids[Len(ids) + 1 - i]

\* for s in debrisIds: the i-th pass takes the i-th identifier.
Candidate(ids, i) == ids[i]

\* for s in debrisIds: the per-object GET, its check and json.loads.
Fetch ==
    /\ pc = "fetch"
    /\ idx <= Len(debrisIds)
    /\ reqCycle' = reqCycle + 1
    /\ fetchCycle' = fetchCycle + 1
    /\ nFetch' = nFetch + 1
    /\ pauseAtFetch' = nPause
    /\ getIn' = getIn \cup {session}
    /\ LET s == Candidate(debrisIds, idx)
       IN  \E status \in Statuses, body \in Bodies, recs \in ServiceRecords(s) :
              IF status # 200
              THEN /\ Raise(MyErrorNew(2, "GET fail for debris object", s, "fetch"))
                   /\ UNCHANGED << retData, rix, served >>
              ELSE IF body # "json"
              THEN /\ Raise(Exc("JSONDecodeError", "fetch body"))
                   /\ UNCHANGED << retData, rix, served >>
              ELSE /\ retData' = recs
                   /\ rix' = 1
                   /\ served' = Append(served, [id |-> s, n |-> Len(recs), at |-> Len(emitted)])
                   /\ pc' = "record"
                   /\ UNCHANGED << session, workbook, err >>
    /\ UNCHANGED << variant, debrisIds, idx, maxs, wsline, sheet, nPause, listed,
                    emitted, rowOf >>

\* The row index left where it is.
SameLine(w) == w

\* wsline += 1
NextLine(w) == w + 1

\* for e in retData: one pass of the loop body, up to wsline += 1 or to the
\* first exception.
WriteRow ==
    /\ pc = "record"
    /\ rix <= Len(retData)
    /\ \E cw \in {"raise", "store"} :
          LET steps == RowSteps(variant, retData[rix], cw)
              fail  == FirstFail(steps)
              cells == CellsWritten(steps)
          IN  IF fail <= Len(steps)
              THEN /\ Raise(Exc(steps[fail].err, "record"))
                   /\ sheet' = IF cells = << >> THEN sheet ELSE Append(sheet, cells)
                   /\ rowOf' = IF cells = << >> THEN rowOf ELSE Append(rowOf, wsline)
                   /\ UNCHANGED << wsline, rix, emitted >>
              ELSE /\ sheet' = Append(sheet, cells)
                   /\ rowOf' = Append(rowOf, wsline)
                   /\ wsline' = NextLine(wsline)
                   /\ rix' = rix + 1
                   /\ emitted' = Append(emitted, << idx, rix >>)
                   /\ UNCHANGED << pc, session, workbook, err >>
    /\ UNCHANGED << variant, debrisIds, idx, retData, maxs, reqCycle, fetchCycle,
                    nFetch, nPause, pauseAtFetch, getIn, listed, served >>

\* The threshold test taken one late, and one early.
OverLimitLate(m) == m > K + 1
OverLimitEarly(m) == m >= K

\* if maxs > 18
OverLimit(m) == m > K

\* The counter advanced by the number of records of s.
CountedPerRecord(m, records) == m + Len(records)

\* maxs += 1, after the loop over the records of s and whatever they were.
Counted(m, records) == m + 1

\* maxs += 1 and `if maxs > 18`, after the records of s.
Count ==
    /\ pc = "record"
    /\ rix > Len(retData)
    /\ maxs' = Counted(maxs, retData)
    /\ IF OverLimit(maxs')
       THEN pc' = "sleep" /\ UNCHANGED idx
       ELSE pc' = "fetch" /\ idx' = NextCandidate(idx)
    /\ UNCHANGED << variant, session, workbook, debrisIds, retData, rix, wsline,
                    sheet, err, hist >>

\* time.sleep(60) and maxs = 1.
Sleep ==
    /\ pc = "sleep"
    /\ maxs' = 1
    /\ idx' = NextCandidate(idx)
    /\ pc' = "fetch"
    /\ nPause' = nPause + 1
    /\ reqCycle' = 0
    /\ fetchCycle' = 0
    /\ UNCHANGED << variant, session, workbook, debrisIds, retData, rix, wsline,
                    sheet, err, nFetch, pauseAtFetch, getIn, listed, served,
                    emitted, rowOf >>

\* The loop is over: the with block exits and closes the session.
ExitWith ==
    /\ pc = "fetch"
    /\ idx > Len(debrisIds)
    /\ session' = "Closed"
    /\ pc' = "close"
    /\ UNCHANGED << variant, workbook, prog, err, hist >>

\* session.close() after the block.
SessionClose ==
    /\ pc = "close"
    /\ session' = "Closed"
    /\ pc' = "save"
    /\ UNCHANGED << variant, workbook, prog, err, hist >>

\* workbook.close() and the final print.
WorkbookClose ==
    /\ pc = "save"
    /\ workbook' = "closed"
    /\ pc' = "done"
    /\ UNCHANGED << variant, session, prog, err, hist >>

Next ==
    \/ Login
    \/ ListDebris
    \/ Fetch
    \/ WriteRow
    \/ Count
    \/ Sleep
    \/ ExitWith
    \/ SessionClose
    \/ WorkbookClose

Spec == Init /\ [][Next]_vars

\* ------------------------------------------------- the record loop alone
\* The keys of an element record.
FieldNames ==
    { "NORAD_CAT_ID", "OBJECT_NAME", "EPOCH", "REV_AT_EPOCH", "INCLINATION",
      "ECCENTRICITY", "MEAN_MOTION", "RA_OF_ASC_NODE", "ARG_OF_PERICENTER",
      "MEAN_ANOMALY" }

\* The record e without the keys in missing.
Without(e, missing) == [k \in DOMAIN e |-> IF k \in missing THEN Absent ELSE e[k]]

\* Mean motions in 1/10 rev/day and eccentricities in 1/10000 the service may
\* return, out-of-range values among them.
MeanMotions == {-10, 0, 10, 20, 155, 170}
Eccentricities == {-3, 0, 3, 5000, 9999}

\* The records put through the loop body: the 15.5 rev/day record with every
\* subset of its keys missing, and complete records of every mean motion and
\* eccentricity.
RecordInputs ==
    { Without(ElementRecord(1, Ordinary), missing) : missing \in SUBSET FieldNames }
        \cup { ElementRecord(1, [name |-> StrField("DEB"), mm |-> NumField(n),
                                 ecc |-> NumField(x)]) :
                    n \in MeanMotions, x \in Eccentricities }

\* The state at the head of the record loop after the login, a listing of the
\* one identifier 1 and its fetch, all answered 200: the response holds one of
\* RecordInputs followed by a well-formed record.
RecordInit ==
    /\ variant \in Variants
    /\ pc = "record"
    /\ session = "Authenticated"
    /\ workbook = "open"
    /\ debrisIds = << 1 >>
    /\ idx = 1
    /\ retData \in { << e, ElementRecord(1, Ordinary) >> : e \in RecordInputs }
    /\ rix = 1
    /\ maxs = 1
    /\ wsline = FirstRow
    /\ sheet = << >>
    /\ err = NoError
    /\ reqCycle = 3
    /\ fetchCycle = 1
    /\ nFetch = 1
    /\ nPause = 0
    /\ pauseAtFetch = 0
    /\ getIn = {"Authenticated"}
    /\ listed = << Entry(1) >>
    /\ served = << [id |-> 1, n |-> 2, at |-> 0] >>
    /\ emitted = << >>
    /\ rowOf = << >>

\* What runs from there on: the rows, the counter, the end of the loop and
\* the two closes.
RecordNext ==
    \/ WriteRow
    \/ Count
    \/ ExitWith
    \/ SessionClose
    \/ WorkbookClose

RecordSpec == RecordInit /\ [][RecordNext]_vars

\* ------------------------------------------------------------------ claims
Ended == pc \in {"done", "aborted"}

\* C1, as stated: no more than K = 18 HTTP requests of any kind (login,
\* candidate listing and per-object fetches) are issued within one cool-down
\* cycle.
C1_RequestsPerCycle == reqCycle <= K

\* C1, amended: no more than K per-object fetches are issued within one
\* cool-down cycle; the login POST and the listing GET are not counted, so the
\* first cycle holds at most K + 2 requests and every later cycle at most K.
C1_FetchesPerCycle ==
    /\ fetchCycle <= K
    /\ reqCycle <= (IF nPause = 0 THEN K + 2 ELSE K)

\* A later cycle that is full: K requests since the first pause, the second
\* pause due.
C1_Witness == pc = "sleep" /\ nPause = 1 /\ reqCycle = K /\ fetchCycle = K

\* C2: the next per-object fetch after exactly K of them is preceded by
\* exactly one pause, and no pause precedes any of the K - 1 after it, in
\* every cycle: the n-th fetch has (n - 1) div K pauses before it. At the head
\* of the loop the counter is 1 plus the fetches of the cycle, so a pause
\* leaves it at 1.
C2_PauseEveryK ==
    /\ nFetch > 0 => pauseAtFetch = (nFetch - 1) \div K
    /\ pc = "fetch" => maxs = fetchCycle + 1 /\ fetchCycle = nFetch % K

\* The first fetch of the third cycle, two pauses before it.
C2_Witness == nFetch = 2 * K + 1 /\ pauseAtFetch = 2 /\ pc = "record"

\* C3: a login POST answered with a non-200 status ends the run with the
\* program's MyError for "POST fail on login", and no GET is issued and no row
\* written.
C3_LoginFailure ==
    (pc = "aborted" /\ err.at = "login") =>
        /\ err.kind = "MyError"
        /\ err.call = "POST fail on login"
        /\ getIn = {}
        /\ nFetch = 0
        /\ sheet = << >>

\* C4: a per-object fetch of s answered with a non-200 status ends the run
\* there, and the error that ends it reports the identifier s and the remote
\* call that failed.
C4_FetchFailureReported ==
    (pc = "aborted" /\ err.at = "fetch") =>
        /\ ~ ENABLED Next
        /\ Len(served) = idx - 1
        /\ err.call = "GET fail for debris object"
        /\ err.ident = debrisIds[idx]

\* C5: the session is closed on every exit path (normal completion, and a
\* failure of the login, of the listing, of a per-object fetch, of the parsing
\* of a body or of a record), and once closed it stays closed.
C5_SessionClosed ==
    /\ [](pc \in {"close", "save", "done", "aborted"} => session = "Closed")
    /\ [][session = "Closed" => session' = "Closed"]_vars

\* A run ended by a per-object response body that does not parse.
C5_Witness == pc = "aborted" /\ err.at = "fetch body" /\ session = "Closed"

\* C6: the listing GET and every per-object GET are issued while the session
\* is Authenticated, never while it is Unauthenticated or Closed.
C6_GetOnlyAuthenticated == getIn \subseteq {"Authenticated"}

\* Both kinds of GET have been issued.
C6_Witness == getIn = {"Authenticated"} /\ nFetch >= 1

\* C7: when the run ends, on completion and on every failure, the session and
\* the output sink (the workbook) have both been closed.
C7_ResourcesReleased == Ended => session = "Closed" /\ workbook = "closed"

\* The complete rows that came of the last fetch, each with its record.
LastFetchRows == { r \in 1..Len(emitted) : emitted[r][1] = Len(served) }
RecordOf(r) == retData[emitted[r][2]]

\* C8: identifiers are fetched in the order of the candidate list; the rows
\* of the k-th fetch are one per record, in the order returned, and follow
\* directly the rows of the fetches before it (none for a fetch without
\* records): row served[k].at + j is record j of fetch k.
C8_RowOrder ==
    /\ Len(served) <= Len(debrisIds)
    /\ \A k \in 1..Len(served) :
          /\ served[k].id = debrisIds[k]
          /\ served[k].at = (IF k = 1 THEN 0 ELSE served[k - 1].at + served[k - 1].n)
    /\ \A r \in 1..Len(emitted) :
          LET k == emitted[r][1]
              j == emitted[r][2]
          IN  /\ k \in 1..Len(served)
              /\ j \in 1..served[k].n
              /\ r = served[k].at + j
              /\ Len(sheet[r]) = NumCols
              /\ sheet[r][1] = Num(debrisIds[k])
    /\ pc \in {"fetch", "sleep", "close", "save", "done"} /\ served # << >> =>
          Len(emitted) = served[Len(served)].at + served[Len(served)].n
    /\ pc = "done" => Len(served) = Len(debrisIds)
    /\ Len(emitted) <= Len(sheet)
    /\ \A r \in LastFetchRows :
          sheet[r] = CellsWritten(RowSteps(variant, RecordOf(r), "store"))

\* A finished run over three or more identifiers, the first with two records.
C8_Witness ==
    /\ pc = "done"
    /\ Len(served) >= 3
    /\ served[1].n = 2
    /\ Len(sheet) = Len(served) + 1

\* A record whose mean motion is 0 or missing.
Degenerate(e) == ~ e.MEAN_MOTION.p \/ e.MEAN_MOTION.v = 0

\* C9, as stated: in the tolerant variant a record whose mean motion is 0 or
\* missing yields 0 in every derived column (semi-major axis, apogee, perigee
\* and average altitude, period, velocity) and does not raise.
C9_AllDerivedZero ==
    variant = "tolerant" =>
        /\ \A r \in LastFetchRows :
              Degenerate(RecordOf(r)) =>
                 \A c \in {8, 9, 10, 14, 15, 16} : sheet[r][c] = Num(0)
        /\ (pc = "aborted" /\ err.at = "record") => ~ Degenerate(retData[rix])

\* C9, amended: such a record yields 0 for the semi-major axis, the period
\* and the velocity, and -MRAD (-6378.137 km) for the apogee, perigee and
\* average altitude, whatever the eccentricity, and does not raise.
C9_DegenerateRow ==
    variant = "tolerant" =>
        /\ \A r \in LastFetchRows :
              Degenerate(RecordOf(r)) =>
                 /\ \A c \in {14, 15, 16} : sheet[r][c] = Num(0)
                 /\ \A c \in {8, 9, 10} : sheet[r][c] = Num(0 - MRAD)
        /\ (pc = "aborted" /\ err.at = "record") => ~ Degenerate(retData[rix])

\* Rows of a record with mean motion 0 (eccentricity 0.9999) and of a record
\* without MEAN_MOTION (eccentricity 0).
C9_Witness ==
    /\ variant = "tolerant"
    /\ \E r \in LastFetchRows :
          RecordOf(r).MEAN_MOTION.p /\ RecordOf(r).MEAN_MOTION.v = 0
              /\ sheet[r][6] = Num(9999)
    /\ \E r \in LastFetchRows :
          ~ RecordOf(r).MEAN_MOTION.p /\ sheet[r][6] = Num(0)

\* C10: in the tolerant variant every record with mean motion <= 0, negative
\* values included, yields semi-major axis 0 and does not end the run.
C10_NonPositiveDegenerate ==
    variant = "tolerant" =>
        /\ \A r \in LastFetchRows :
              RecordOf(r).MEAN_MOTION.v <= 0 => sheet[r][14] = Num(0)
        /\ (pc = "aborted" /\ err.at = "record") => retData[rix].MEAN_MOTION.v > 0

\* The listing has been received and parsed.
ListingParsed ==
    pc \notin {"login", "list"} /\ err.at \notin {"login", "list", "list body"}

\* The entries of the listing that have a NORAD_CAT_ID, in list order.
WithId == SelectSeq(listed, LAMBDA e : e.has)

\* debrisIds is the identifiers of the entries that have one, in list order;
\* the fetches issued are of these, in that order, and no more.
KeptInOrder ==
    /\ Len(debrisIds) = Len(WithId)
    /\ \A i \in 1..Len(WithId) : debrisIds[i] = WithId[i].id
    /\ nFetch <= Len(WithId)
    /\ \A k \in 1..Len(served) : served[k].id = WithId[k].id
    /\ pc = "done" => nFetch = Len(WithId)

\* C11, as stated: in both variants an entry without NORAD_CAT_ID does not
\* end the run at the enumeration step; the identifiers fetched are exactly
\* those of the entries that have one, in list order, and no fetch is issued
\* for an entry without one.
C11_MissingIdExcluded ==
    ListingParsed => err.at # "list entry" /\ KeptInOrder

\* C11, amended: that holds of the tolerant variant; the strict variant ends
\* at the enumeration step with a KeyError, before any fetch, exactly when some
\* entry has no NORAD_CAT_ID, and fetches every entry in list order otherwise.
C11_TolerantExcludes ==
    ListingParsed =>
        /\ variant = "tolerant" => err.at # "list entry" /\ KeptInOrder
        /\ variant = "strict" =>
              IF \E i \in 1..Len(listed) : ~ listed[i].has
              THEN pc = "aborted" /\ err = Exc("KeyError", "list entry") /\ nFetch = 0
              ELSE err.at # "list entry" /\ KeptInOrder

\* A finished tolerant run over a listing whose second entry has no
\* NORAD_CAT_ID, the entries before and after it fetched.
C11_Witness ==
    /\ variant = "tolerant"
    /\ pc = "done"
    /\ Len(listed) >= 3
    /\ ~ listed[2].has
    /\ Len(served) = Len(listed) - 1

\* The sheet column (1-based) of each key, and the default written for it.
ColumnOf(key) ==
    CASE key = "NORAD_CAT_ID" -> 1 [] key = "OBJECT_NAME" -> 2 [] key = "EPOCH" -> 3
      [] key = "REV_AT_EPOCH" -> 4 [] key = "INCLINATION" -> 5
      [] key = "ECCENTRICITY" -> 6 [] key = "MEAN_MOTION" -> 7
      [] key = "RA_OF_ASC_NODE" -> 11 [] key = "ARG_OF_PERICENTER" -> 12
      [] key = "MEAN_ANOMALY" -> 13
DefaultCell(key) ==
    IF key \in {"OBJECT_NAME", "EPOCH"} THEN Str("UNKNOWN") ELSE Num(0)

\* C12: in the tolerant variant a record with any subset of its keys missing
\* gets exactly one row, of 16 cells, with UNKNOWN in the column of each
\* missing string key and 0 in the column of each missing numeric key; the
\* record loop goes on to the next record and ends with one row per record; a
\* run that ends in the loop ends on a key that is present (a negative mean
\* motion), never on a missing one.
C12_MissingFieldsDefault ==
    variant = "tolerant" =>
        /\ \A r \in LastFetchRows :
              /\ Len(sheet[r]) = NumCols
              /\ \A key \in FieldNames :
                    ~ RecordOf(r)[key].p => sheet[r][ColumnOf(key)] = DefaultCell(key)
        /\ \A j \in 1..Len(retData) :
              (pc = "record" /\ j < rix) \/ pc \in {"fetch", "sleep", "close", "save", "done"}
                  => \E r \in LastFetchRows : emitted[r][2] = j /\ r = served[Len(served)].at + j
        /\ (pc = "aborted" /\ err.at = "record") =>
              retData[rix].MEAN_MOTION.p /\ retData[rix].MEAN_MOTION.v < 0

\* A finished tolerant run whose first record lacks the name, the mean motion
\* and the mean anomaly and has the other keys: two rows.
C12_Witness ==
    /\ variant = "tolerant"
    /\ pc = "done"
    /\ Len(retData) = 2
    /\ { key \in FieldNames : ~ retData[1][key].p }
           = {"OBJECT_NAME", "MEAN_MOTION", "MEAN_ANOMALY"}
    /\ Len(emitted) = 2
    /\ sheet[1][2] = Str("UNKNOWN") /\ sheet[1][3] = Str("2024-01-01")

\* The places a run ends at on a response: a non-200 status or a body that
\* does not parse.
ResponseFailures == {"login", "list", "list body", "fetch", "fetch body"}

\* C13, as stated: a run whose responses are all successful and parsable
\* reaches completion, so a run that does not complete has ended at a
\* non-success or unparsable response.
C13_AbortOnlyOnResponse == pc = "aborted" => err.at \in ResponseFailures

\* An upper bound on the steps a run has left: Fetch, Count and Sleep and at
\* most MaxRecs rows for every identifier not yet done, then the end of the
\* block and the two closes.
StepsPerId == MaxRecs + 3
Left ==
    LET todo == Len(debrisIds) - idx
    IN  CASE pc = "login" -> MaxIds * StepsPerId + 5
          [] pc = "list" -> MaxIds * StepsPerId + 4
          [] pc = "fetch" -> (todo + 1) * StepsPerId + 3
          [] pc = "record" -> todo * StepsPerId + 3 + (Len(retData) + 1 - rix) + 2
          [] pc = "sleep" -> todo * StepsPerId + 3 + 1
          [] pc = "close" -> 2
          [] pc = "save" -> 1
          [] OTHER -> 0

\* The records the loop body raises on, when all responses were good: in the
\* strict variant one with a key missing or with mean motion 0, always; in
\* either variant one with a negative mean motion, when the sheet library
\* rejects the complex number derived from it.
MustRaise(e) ==
    variant = "strict" /\ ((\E key \in DOMAIN e : ~ e[key].p) \/ e.MEAN_MOTION.v = 0)
MayRaise(e) == e.MEAN_MOTION.p /\ e.MEAN_MOTION.v < 0

\* Some step can be taken: a record is left to write (WriteRow, which has an
\* outcome for every record), or one of the other actions is enabled.
Continues ==
    \/ pc = "record" /\ rix <= Len(retData)
    \/ ENABLED (Login \/ ListDebris \/ Fetch \/ Count \/ Sleep \/ ExitWith
                    \/ SessionClose \/ WorkbookClose)

\* C13, amended: every run terminates (each step lowers the bound Left on
\* the steps that remain, and a run stops only when it is done or aborted). A
\* run that is done has fetched every entry of the candidate list exactly
\* once, in order, has emitted every record's row and has closed the workbook.
\* A run that aborts does so at the first non-success or unparsable response,
\* at a listing entry without NORAD_CAT_ID in the strict variant, or at the
\* first record the loop body raises on. No request is repeated: every fetch
\* issued was answered well and is the only one of its entry, except the one
\* that ended the run.
C13_Terminates ==
    /\ [][Left' < Left]_vars
    /\ [](Left >= 0 /\ (Left = 0 <=> Ended) /\ (Ended \/ Continues))
    /\ [](pc = "done" =>
            /\ err = NoError
            /\ \A j \in 1..Len(retData) : ~ MustRaise(retData[j])
            /\ workbook = "closed"
            /\ nFetch = Len(debrisIds)
            /\ Len(served) = Len(debrisIds)
            /\ \A k \in 1..Len(served) : served[k].id = debrisIds[k]
            /\ Len(emitted) = (IF served = << >> THEN 0
                               ELSE served[Len(served)].at + served[Len(served)].n)
            /\ Len(sheet) = Len(emitted))
    /\ [](pc = "aborted" =>
            \/ err.at \in ResponseFailures
            \/ err.at = "list entry" /\ variant = "strict"
                  /\ \E i \in 1..Len(listed) : ~ listed[i].has
            \/ err.at = "record" /\ (MustRaise(retData[rix]) \/ MayRaise(retData[rix]))
                  /\ \A j \in 1..(rix - 1) : ~ MustRaise(retData[j]))
    /\ [](/\ nFetch = Len(served) + (IF pc = "aborted" /\ err.at \in {"fetch", "fetch body"}
                                     THEN 1 ELSE 0)
          /\ nFetch <= Len(debrisIds)
          /\ pc \in {"record", "sleep"} => nFetch = idx
          /\ pc = "fetch" => nFetch = idx - 1)

\* A finished run of more than K identifiers, with a pause on the way.
C13_Witness ==
    /\ pc = "done"
    /\ Len(served) > K
    /\ nPause >= 1
    /\ Left = 0

\* C14: every row whose eccentricity is in [0, 1) and whose mean motion is
\* >= 0 holds an apogee altitude >= its perigee altitude; the two are equal
\* only for eccentricity 0 or for the degenerate semi-major axis 0 of mean
\* motion 0.
C14_ApogeeAbovePerigee ==
    \A r \in LastFetchRows :
        LET ecc == sheet[r][6].v
            mm  == sheet[r][7].v
            apo == sheet[r][8]
            per == sheet[r][9]
        IN  (0 <= ecc /\ ecc < 10000 /\ mm >= 0) =>
                /\ apo.k = "num" /\ per.k = "num"
                /\ apo.v >= per.v
                /\ apo.v = per.v <=> (ecc = 0 \/ mm = 0)

\* Two rows of a finished tolerant run: mean motion 0 with eccentricity 0.5,
\* apogee and perigee both -MRAD, and the 15.5 rev/day record, apogee above
\* perigee.
C14_Witness ==
    /\ pc = "done"
    /\ Len(sheet) = 2
    /\ sheet[1][6] = Num(5000) /\ sheet[1][7] = Num(0)
    /\ sheet[1][8] = Num(0 - MRAD) /\ sheet[1][9] = Num(0 - MRAD)
    /\ sheet[2][6] = Num(3) /\ sheet[2][8].v > sheet[2][9].v

\* The rows of the example: MEAN_MOTION 15.5 and ECCENTRICITY 0.0003.
ExampleRows == { r \in LastFetchRows : sheet[r][7] = Num(155) /\ sheet[r][6] = Num(3) }

\* The semi-major axis cell (metres in the model) is 6795 km within 5, the
\* period cell 5571 s within 5.
ExampleAxisAndPeriod(r) ==
    /\ Len(sheet[r]) = NumCols
    /\ sheet[r][14].k = "num" /\ sheet[r][14].v \in 6790000..6800000
    /\ sheet[r][15].k = "num" /\ sheet[r][15].v \in 5566..5576

\* C15, as stated: the row of the example holds a semi-major axis of 6795 km
\* within 5, a period of 5571 s within 5, and in the velocity column a number
\* that is 7.66 within 0.05, the velocity in km/s (a thousand times the number
\* is 7660 within 50).
C15_ExampleKmPerSec ==
    \A r \in ExampleRows :
        /\ ExampleAxisAndPeriod(r)
        /\ sheet[r][16].k = "num" /\ 1000 * sheet[r][16].v \in 7610..7710

\* C15, amended: the number in the velocity column is the velocity in m/s,
\* 7660 within 50; the semi-major axis and the period are as stated.
C15_ExampleMetresPerSec ==
    \A r \in ExampleRows :
        /\ ExampleAxisAndPeriod(r)
        /\ sheet[r][16].k = "num" /\ sheet[r][16].v \in 7610..7710

\* A finished strict run whose two records are both the example.
C15_Witness ==
    /\ variant = "strict"
    /\ pc = "done"
    /\ Cardinality(ExampleRows) = 2
    /\ sheet[1][1] = Num(1)

\* C16: the counter goes up by one for every identifier fetched, whatever the
\* number of records the fetch returned: while the records of the n-th fetch
\* are written it is 1 + (n - 1) mod K, a row leaves it as it is, and it is
\* K + 1 when a pause is due. A finished run over N identifiers has taken
\* N div K pauses; when N is a positive multiple of K the last pause came
\* after the last fetch and no request followed it.
C16_PausesPerRun ==
    /\ [](pc = "record" => maxs = 1 + ((nFetch - 1) % K) /\ nFetch = idx)
    /\ [](pc = "sleep" => maxs = K + 1 /\ nFetch = idx /\ idx % K = 0)
    /\ [][pc = "record" /\ pc' = "record" => maxs' = maxs /\ rix' = rix + 1]_vars
    /\ [][pc = "record" /\ pc' \in {"fetch", "sleep"} => maxs' = maxs + 1]_vars
    /\ [](pc \in {"close", "save", "done"} =>
            /\ nPause = Len(debrisIds) \div K
            /\ (Len(debrisIds) > 0 /\ Len(debrisIds) % K = 0) =>
                  /\ reqCycle = 0
                  /\ pauseAtFetch = nPause - 1
                  /\ nFetch = Len(debrisIds))

\* A finished run over 2 * K identifiers, the last fetch without records:
\* two pauses, the second after the last fetch.
C16_Witness ==
    /\ pc = "done"
    /\ Len(debrisIds) = 2 * K
    /\ nPause = 2
    /\ reqCycle = 0
    /\ served[2 * K].n = 0
    /\ \E k \in 1..Len(served) : served[k].n = 1

\* C17: at every point wsline is FirstRow = 3 plus the number of rows
\* emitted; the j-th emitted record, counting from 0, has all its 16 cells in
\* sheet row 3 + j; the rows written are at strictly increasing indices, so
\* none is written by two records (a record the loop body raises on leaves
\* its first cells in the row after the last emitted one).
C17_RowPlacement ==
    /\ wsline = FirstRow + Len(emitted)
    /\ Len(rowOf) = Len(sheet)
    /\ Len(emitted) <= Len(sheet) /\ Len(sheet) <= Len(emitted) + 1
    /\ \A r \in 1..Len(emitted) : rowOf[r] = FirstRow + (r - 1) /\ Len(sheet[r]) = NumCols
    /\ \A r \in 2..Len(rowOf) : rowOf[r] > rowOf[r - 1]
    /\ Len(sheet) > Len(emitted) =>
          pc = "aborted" /\ err.at = "record" /\ Len(sheet[Len(sheet)]) < NumCols

\* A finished run of three rows, at sheet rows 3, 4 and 5, the first two of
\* one fetch.
C17_Witness ==
    /\ pc = "done"
    /\ rowOf = << FirstRow, FirstRow + 1, FirstRow + 2 >>
    /\ wsline = FirstRow + 3
    /\ emitted[1][1] = emitted[2][1] /\ emitted[3][1] # emitted[2][1]

====
